---- MODULE Spec2Model ----
(***************************************************************************)
(* Condition engine (RuleEngine), its condition classes and the timer      *)
(* service (TimerService) of HubitatRulesMCP, as one state machine.        *)
(*                                                                         *)
(* Scheduling model: asyncio, one event loop.  A coroutine runs without    *)
(* interruption until it awaits something that is not ready.  Putting on   *)
(* the unbounded timer queue, writing an audit record and acquiring a free *)
(* lock do not suspend, so on_device_event, a timer callback and           *)
(* remove_condition each run as one step.  add_condition suspends, holding *)
(* the engine lock, while get_bulk_attributes of a condition with devices  *)
(* is in flight.  A task that needs the lock while it is held waits; a     *)
(* waiting timer callback is still an entry of the timer index and is      *)
(* cancelled like a sleeping one, so it is represented by the timer not    *)
(* having elapsed yet.                                                     *)
(***************************************************************************)
EXTENDS Integers, Sequences, FiniteSets, TLC

(***************************************************************************)
(* Bounds of the exploration.                                              *)
(***************************************************************************)
MaxEvents == 2
MaxRegs == 1
MaxAdds == 2

(***************************************************************************)
(* The condition objects of the explored universe.                         *)
(*   A : StaticDeviceAttributeCondition on device 1, duration and timeout  *)
(*   S : StaticDeviceAttributeCondition on device 1, timeout only          *)
(*   B : StaticDeviceAttributeCondition on device 2, neither               *)
(*   R : StaticDeviceAttributeCondition on device 1, operator ">" and      *)
(*       value False, neither                                              *)
(*   N : StaticDeviceAttributeCondition on device 1, operator "!=",        *)
(*       neither                                                           *)
(*   P : parent of B and A                                                 *)
(*   Q : parent of S and N                                                 *)
(*   O : parent of S                                                       *)
(*   G : parent of Q                                                       *)
(* The class and the operator of the parents are chosen in Init.           *)
(***************************************************************************)
Conds == {"A", "B", "S", "R", "N", "P", "Q", "O", "G"}
Devices == {1, 2}

device_ids(c) ==
    CASE c \in {"A", "S", "R", "N"} -> <<1>>
      [] c = "B" -> <<2>>
      [] OTHER -> <<>>

subconditions(c) ==
    CASE c = "P" -> <<"B", "A">>
      [] c = "Q" -> <<"S", "N">>
      [] c = "O" -> <<"S">>
      [] c = "G" -> <<"Q">>
      [] OTHER -> <<>>

duration(c) == c = "A"

timeout(c) == c \in {"A", "S"}

Range(s) == {s[i] : i \in DOMAIN s}

Leaves == {c \in Conds : subconditions(c) = <<>>}
Parents == Conds \ Leaves

(***************************************************************************)
(* ConditionState, and the marker of an absent dictionary entry.           *)
(***************************************************************************)
FALSE_ == "FALSE"
DURATION_PENDING == "DURATION_PENDING"
TRUE_ == "TRUE"
ConditionState == {FALSE_, DURATION_PENDING, TRUE_}
NoCond == [g |-> 0, st |-> "absent"]
NoTimer == [g |-> -1]
NoSelf == [kind |-> "none", c |-> "none"]
NoReport == [triggered |-> FALSE, st |-> "absent"]
\* attribute values as the hub sends them, and Python's None, True and False
Values == {"on", "off"}
NoValue == "None"
True_ == "True"
False_ == "False"
\* the value a leaf compares with: (device, "switch", "=", True)
literal == True_

\* StaticDeviceAttributeCondition._operator and ._value
_operator(c) ==
    CASE c = "R" -> ">"
      [] c = "N" -> "!="
      [] OTHER -> "="

_value(c) == IF c = "R" THEN False_ ELSE literal

(***************************************************************************)
(* A notifier is (condition, generation): generation 0 is the notifier     *)
(* without events that _initialize_sub_conditions builds, generation g>0   *)
(* the notifier of the g-th add_condition call for that object.            *)
(***************************************************************************)
Gens == 0..MaxRegs

TimerIds == {[kind |-> k, c |-> c] : k \in {"condition_timeout", "condition_duration"}, c \in Conds}
condition_timeout(c) == [kind |-> "condition_timeout", c |-> c]
condition_duration(c) == [kind |-> "condition_duration", c |-> c]

VARIABLES
    conditions,            \* RuleEngine._conditions: c -> NoCond | [g, st]
    condition_deps,        \* RuleEngine._condition_deps: child -> set of parents
    device_to_conditions,  \* RuleEngine._device_to_conditions: device -> set
    adding,                \* call stack of the add_condition holding the lock
    cur,                   \* leaf condition objects: _device_value
    childSt,               \* parent condition objects: child -> bool
    operator,              \* the parents' operator: "and" | "or"
    parentClass,           \* the parents' class: "BooleanCondition" |
                           \* "ParentCondition"
    hub,                   \* the hub's current attribute value per device
    queue,                 \* TimerService._queue
    timers,                \* TimerService._timers: id -> NoTimer | [g]
    zombies,               \* cancelled timer tasks whose finally has not run
    orphans,               \* live timer tasks that the index no longer holds
    fire,                  \* set() calls on the fire signal, per notifier
    tout,                  \* set() calls on the timeout signal, per notifier
    gen,                   \* add_condition calls made per condition object
    nevents,               \* device events dispatched
    registered,            \* the condition objects the application registers
    reported,              \* per parent and child, what the engine gave the
                           \* parent last: the value, and the stored state of
                           \* the child at that moment
    timed_out,             \* the subconditions that their _on_timeout
                           \* callback removed and that were not registered
                           \* since
    stale,                 \* the ids whose entry of TimerService._timers
                           \* holds a task that reset_timer has cancelled
    processor,             \* TimerService._processor_task is not None
    runs,                  \* the callback runs in their order: the
                           \* start_timer call of the client that passed the
                           \* callback, and whether it raised
    started,               \* the ids of the start_timer calls of the client
    cancelled,             \* the calls that cancel_timer was called for
                           \* before their callback ran
    replaced,              \* the calls whose live timer had its id started
                           \* again
    was_reset,             \* the calls whose timer reset_timer cancelled
    stopped,               \* stop() has returned and start() was not called
                           \* since
    ncalls,                \* start_timer, cancel_timer and reset_timer calls
                           \* of the client
    active_rules,          \* RuleHandler._active_rules: name -> task, 0 for
                           \* no entry
    tasks,                 \* the supervisor tasks that the handler created
    installing,            \* per name, the install_rule calls that wait for
                           \* the trigger provider
    ninstalls              \* install calls that passed the name test

vars == <<conditions, condition_deps, device_to_conditions, adding, cur, childSt,
          operator, parentClass, hub, queue, timers, zombies, orphans, fire, tout,
          gen, nevents, registered, reported, timed_out, stale, processor, runs,
          started, cancelled, replaced, was_reset, stopped, ncalls,
          active_rules, tasks, installing, ninstalls>>

(***************************************************************************)
(* The mutable part of the program as one record, so that the methods can  *)
(* be written as functions from state to state.  log is the sequence of    *)
(* the calls that the running handler has made on condition objects, and   *)
(* raised tells that an exception is propagating out of it, missing that   *)
(* the exception is the KeyError of a lookup in _conditions or in the      *)
(* snapshot of it.  lock tells that _engine_lock is held, acquired counts   *)
(* the acquisitions of it by the running handler, and blocked tells that   *)
(* the handler waits for the lock while it holds it itself.  All of these  *)
(* belong to one handler invocation and are not kept between steps: the    *)
(* lock that add_condition holds across its suspension is adding.  fresh   *)
(* is the set of the ids whose timer task the running handler has created: *)
(* such a task has not run yet, so that cancelling it ends it before its   *)
(* try block is entered.                                                   *)
(***************************************************************************)
Pack ==
    [conditions |-> conditions, condition_deps |-> condition_deps,
     device_to_conditions |-> device_to_conditions, cur |-> cur,
     childSt |-> childSt, queue |-> queue, timers |-> timers,
     zombies |-> zombies, orphans |-> orphans, fire |-> fire, tout |-> tout,
     reported |-> reported, timed_out |-> timed_out, stale |-> stale,
     fresh |-> {}, self |-> NoSelf, log |-> <<>>, raised |-> FALSE, missing |-> FALSE,
     lock |-> adding # <<>>, acquired |-> 0, blocked |-> FALSE]

Unpack(E) ==
    /\ conditions' = E.conditions
    /\ condition_deps' = E.condition_deps
    /\ device_to_conditions' = E.device_to_conditions
    /\ cur' = E.cur
    /\ childSt' = E.childSt
    /\ queue' = E.queue
    /\ timers' = E.timers
    /\ zombies' = E.zombies
    /\ orphans' = E.orphans
    /\ fire' = E.fire
    /\ tout' = E.tout
    /\ reported' = E.reported
    /\ timed_out' = E.timed_out
    /\ stale' = E.stale

Tracked(E, c) == E.conditions[c] # NoCond

\* a call op on the condition object on, with a condition argument or none
Call(op, on, arg) == [op |-> op, on |-> on, arg |-> arg]
Logged(E, call) == [E EXCEPT !.log = Append(@, call)]

\* async with self._engine_lock: entry and exit.  aio.Lock is not
\* reentrant
acquire(E) ==
    IF E.lock THEN [E EXCEPT !.blocked = TRUE]
    ELSE [E EXCEPT !.lock = TRUE, !.acquired = @ + 1]

\* the exit that leaves the lock held
keep_lock(E) == E

release(E) == [E EXCEPT !.lock = FALSE]

\* a KeyError leaves the running handler
KeyError(E) == [E EXCEPT !.raised = TRUE, !.missing = TRUE]

(***************************************************************************)
(* ConditionNotifier.notify / notify_timeout: set the event if there is    *)
(* one.                                                                    *)
(***************************************************************************)
notify(E, c, g) ==
    IF g = 0 THEN E
    ELSE [E EXCEPT !.fire[c][g] = @ + 1]

notify_timeout(E, c, g) ==
    IF g = 0 THEN E
    ELSE [E EXCEPT !.tout[c][g] = @ + 1]

(***************************************************************************)
(* TimerService.                                                           *)
(***************************************************************************)
\* start_timer: the request is put on the queue, nothing else
start_timer(E, id, g) ==
    [E EXCEPT !.queue = Append(@, [id |-> id, g |-> g])]

\* cancel_timer: only a timer of the index is found.  The cancelled task
\* runs its finally block when it is next scheduled, unless it is the task
\* that is running this very call.
cancel_timer(E, id) ==
    IF E.timers[id] = NoTimer THEN E
    ELSE IF E.self = id \/ id \in E.fresh
         THEN [E EXCEPT !.timers[id] = NoTimer, !.fresh = @ \ {id}]
         ELSE [E EXCEPT !.timers[id] = NoTimer, !.zombies = @ \cup {id},
                        !.stale = @ \ {id}]

\* _start_timer_internal
start_timer_internal(E, req) ==
    LET E1 == IF E.timers[req.id] # NoTimer THEN cancel_timer(E, req.id) ELSE E
    IN [E1 EXCEPT !.timers[req.id] = [g |-> req.g], !.fresh = @ \cup {req.id}]

\* _process_queue, once woken, takes every queued request: get() on a
\* non-empty queue does not suspend
RECURSIVE process_queue(_)
process_queue(E) ==
    IF E.queue = <<>> THEN E
    ELSE process_queue(start_timer_internal([E EXCEPT !.queue = Tail(@)], Head(E.queue)))

\* the finally block of timer_task
timer_task_finally(E, id) ==
    IF E.timers[id] = NoTimer THEN E
    ELSE IF E.self = id \/ id \in E.stale
         THEN [E EXCEPT !.timers[id] = NoTimer, !.stale = @ \ {id}]
         ELSE [E EXCEPT !.timers[id] = NoTimer,
                        !.orphans = @ \cup {[id |-> id, g |-> E.timers[id].g]}]

\* timer_task in which the finally block runs only after a callback that
\* returned
timer_task_end_unless_raised(E, id, raises) ==
    IF raises THEN E ELSE timer_task_finally(E, id)

\* timer_task from the return of the callback on: there is no except
\* clause, the finally block runs whether the callback returned or raised,
\* and an exception ends this task and nothing else
timer_task_end(E, id, raises) == timer_task_finally(E, id)

\* reset_timer that does not cancel the task
reset_timer_uncancelled(E, id) ==
    IF E.timers[id] = NoTimer THEN [E |-> E, value |-> FALSE]
    ELSE [E |-> start_timer(E, id, E.timers[id].g), value |-> TRUE]

\* reset_timer: the task is cancelled, the entry stays, and the request is
\* queued again.  value is what the method returns
reset_timer(E, id) ==
    IF E.timers[id] = NoTimer THEN [E |-> E, value |-> FALSE]
    ELSE [E |-> start_timer([E EXCEPT !.stale = @ \cup {id},
                                      !.zombies = @ \cup {id}],
                            id, E.timers[id].g),
          value |-> TRUE]

(***************************************************************************)
(* Condition classes.  A leaf is a StaticDeviceAttributeCondition          *)
(* (device, "switch", operator, value); a parent is a BooleanCondition     *)
(* (rules/condition.py) or a ParentCondition (tests/test_conditions.py).   *)
(***************************************************************************)
\* the elements of a set of condition ids as a list.  The lists built this
\* way are the parents of one child; the evaluate of a parent has no side
\* effect and does not raise, so the stored states after the propagation
\* do not depend on the order chosen here
IterationOrder == <<"A", "B", "S", "R", "N", "P", "Q", "O", "G">>
SeqOf(S) == SelectSeq(IterationOrder, LAMBDA x : x \in S)

\* every order in which a Python set can be iterated
Orders(S) ==
    {s \in [1..Cardinality(S) -> S] :
        \A i, j \in 1..Cardinality(S) : i # j => s[i] # s[j]}

\* evaluate raises: ordering None against a bool is a TypeError
evaluate_raises(E, c) ==
    /\ c \in Leaves
    /\ _operator(c) = ">"
    /\ E.cur[c] = NoValue

\* evaluate, where it returns.  True > False is the one true ">" of bools
evaluate(E, c) ==
    IF c \in Leaves
    THEN CASE _operator(c) = "=" -> E.cur[c] = _value(c)
           [] _operator(c) = "!=" -> E.cur[c] # _value(c)
           [] _operator(c) = ">" -> E.cur[c] = True_ /\ _value(c) = False_
    ELSE IF operator = "and"
         THEN \A s \in Range(subconditions(c)) : E.childSt[c][s]
         ELSE \E s \in Range(subconditions(c)) : E.childSt[c][s]

\* StaticDeviceAttributeCondition._cast_value: isinstance(_value_type,
\* type(bool)) holds for every _value_type, so a string from the hub always
\* becomes the boolean "is one of the truthy words"; the hub's values are
\* lower case
Truthy == {"true", "1", "yes", "on", "active", "open"}
_cast_value(value) ==
    IF value = NoValue THEN NoValue
    ELSE IF value \in Truthy THEN True_ ELSE False_

\* StaticDeviceAttributeCondition.on_device_event; the other classes
\* inherit the empty method of EngineCondition
cond_on_device_event(E, c, v) ==
    LET E1 == Logged(E, Call("on_device_event", c, "none"))
    IN IF c \in Leaves THEN [E1 EXCEPT !.cur[c] = _cast_value(v)] ELSE E1

\* ParentCondition.on_condition_event records the state; BooleanCondition
\* does not override the empty method of EngineCondition
on_condition_event(E, p, child, triggered) ==
    LET E1 == [Logged(E, Call("on_condition_event", p, child))
                  EXCEPT !.reported[p][child] =
                            [triggered |-> triggered, st |-> E.conditions[child].st]]
    IN IF parentClass = "ParentCondition"
       THEN [E1 EXCEPT !.childSt[p][child] = triggered]
       ELSE E1

\* initialize: returns the state after initialize; the result of
\* initialize is evaluate of that state
initialize(E, c, attr, conds) ==
    IF c \in Leaves THEN [E EXCEPT !.cur[c] = _cast_value(attr)]
    ELSE [E EXCEPT !.childSt[c] =
                       [s \in Range(subconditions(c)) |-> conds[s]],
                   !.reported[c] =
                       [s \in Range(subconditions(c)) |->
                           [triggered |-> conds[s], st |-> E.conditions[s].st]]]

ToState(b, c) ==
    IF b /\ duration(c) THEN DURATION_PENDING
    ELSE IF b THEN TRUE_
    ELSE FALSE_

(***************************************************************************)
(* RuleEngine.                                                             *)
(***************************************************************************)
\* get_condition_state with DURATION_PENDING read as true
get_condition_state_pending_true(conds, c) ==
    IF conds[c] # NoCond THEN conds[c].st # FALSE_ ELSE FALSE

get_condition_state_of(conds, c) ==
    IF conds[c] # NoCond THEN conds[c].st = TRUE_ ELSE FALSE

get_condition_state(c) == get_condition_state_of(conditions, c)

_has_dependents(E, c) ==
    \E k \in Conds : c \in E.condition_deps[k]

RECURSIVE _remove_condition(_, _)
RECURSIVE remove_subconditions(_, _)

remove_subconditions(E, subs) ==
    IF subs = <<>> THEN E
    ELSE remove_subconditions(
             IF Tracked(E, Head(subs)) THEN _remove_condition(E, Head(subs)) ELSE E,
             Tail(subs))

\* the loop of _remove_condition over device_ids: discard, and delete the
\* entry of a device that no condition is left for
remove_device_mapping(E, c) ==
    LET m == E.device_to_conditions
        devs == Range(device_ids(c)) \cap DOMAIN m
        keep == {d \in DOMAIN m : d \notin devs \/ m[d] \ {c} # {}}
    IN [E EXCEPT !.device_to_conditions =
                     [d \in keep |-> IF d \in devs THEN m[d] \ {c} ELSE m[d]]]

\* _remove_condition without the test that the condition is tracked
_remove_condition_untested(E, c) ==
    LET E1 == cancel_timer(cancel_timer(E, condition_timeout(c)), condition_duration(c))
        E2 == [remove_device_mapping(E1, c) EXCEPT
                 !.conditions[c] = NoCond,
                 !.condition_deps[c] = {}]
    IN remove_subconditions(E2, subconditions(c))

_remove_condition(E, c) ==
    LET E1 == cancel_timer(cancel_timer(E, condition_timeout(c)), condition_duration(c))
    IN IF ~Tracked(E1, c) THEN E1
       ELSE LET E2 == [remove_device_mapping(E1, c) EXCEPT
                        !.conditions[c] = NoCond,
                        !.condition_deps[c] = {}]
            IN remove_subconditions(E2, subconditions(c))

\* remove_condition, the public method
remove_condition(E, c) ==
    LET L == acquire(E)
    IN IF L.blocked THEN L ELSE release(_remove_condition(L, c))

\* one parent of the inner loop of _propagate_state_update
RECURSIVE notify_parents(_, _, _, _)
notify_parents(E, ps, c, eff) ==
    IF ps = <<>> THEN E
    ELSE notify_parents(
             IF Tracked(E, Head(ps)) THEN on_condition_event(E, Head(ps), c, eff)
             ELSE Logged(E, Call("skip", Head(ps), c)),
             Tail(ps), c, eff)

\* _propagate_state_update: work is the deque, of condition ids; the
\* notifier of a work item is the stored one
RECURSIVE _propagate_state_update(_, _, _)
_propagate_state_update(E, work, touched) ==
    IF work = <<>>
    THEN [E |-> IF \A c \in touched : Tracked(E, c) THEN E ELSE KeyError(E),
          touched |-> touched]
    ELSE LET c == Head(work)
             E0 == Logged(E, Call("evaluate", c, "none"))
             new_state == ToState(evaluate(E0, c), c)
             E1 == IF new_state # E0.conditions[c].st
                   THEN [E0 EXCEPT !.conditions[c].st = new_state]
                   ELSE E0
             ps == SeqOf(E0.condition_deps[c])
             E2 == notify_parents(E1, ps, c, new_state = TRUE_)
             more == SelectSeq(ps, LAMBDA p : Tracked(E1, p))
         IN IF ~Tracked(E, c)
            THEN [E |-> KeyError(E), touched |-> touched \cup {c}]
            ELSE IF evaluate_raises(E0, c)
            THEN [E |-> [E0 EXCEPT !.raised = TRUE], touched |-> touched \cup {c}]
            ELSE _propagate_state_update(E2, Tail(work) \o more, touched \cup {c})

\* the loop of _process_condition_change over the touched notifiers.
\* touched_conditions is a Python set of instance ids, iterated in an order
\* the program does not control: the result is the set of states the loop
\* can end in, one per order
RECURSIVE process_notifiers(_, _, _)
process_notifier(E, c, rest, previous_state) ==
    IF ~Tracked(E, c)
    THEN process_notifiers(Logged(E, Call("skip", c, "none")), rest, previous_state)
    ELSE IF previous_state[c] = NoCond THEN {KeyError(E)}
    ELSE LET g == E.conditions[c].g
             curr == E.conditions[c].st
             prev == previous_state[c].st
             E1 == IF /\ prev \in {TRUE_, DURATION_PENDING}
                      /\ curr = FALSE_
                      /\ duration(c)
                   THEN cancel_timer(E, condition_duration(c))
                   ELSE E
         IN IF curr = DURATION_PENDING /\ prev = FALSE_ /\ duration(c)
            THEN {start_timer(E1, condition_duration(c), g)}   \* return
            ELSE IF curr = TRUE_ /\ prev = FALSE_
            THEN process_notifiers(
                     notify(cancel_timer(_remove_condition(E1, c),
                                         condition_timeout(c)), c, g),
                     rest, previous_state)
            ELSE process_notifiers(E1, rest, previous_state)

process_notifiers(E, touched, previous_state) ==
    IF touched = {} THEN {E}
    ELSE UNION {process_notifier(E, c, touched \ {c}, previous_state) : c \in touched}

_process_condition_change(E, impacted) ==
    LET previous_state == E.conditions
        r == _propagate_state_update(E, impacted, {})
    IN IF r.E.raised THEN {r.E}
       ELSE process_notifiers(r.E, r.touched, previous_state)

\* on_device_event that delivers the event to the first impacted condition
\* only
deliver_first_and_process(E, impacted, v) ==
    _process_condition_change(
        IF impacted = <<>> THEN E ELSE cond_on_device_event(E, Head(impacted), v),
        impacted)

\* on_device_event with the list impacted: the loop that delivers the
\* event, then _process_condition_change
deliver_and_process(E, impacted, v) ==
    LET Deliver[i \in 0..Len(impacted)] ==
            IF i = 0 THEN E ELSE cond_on_device_event(Deliver[i - 1], impacted[i], v)
    IN _process_condition_change(Deliver[Len(impacted)], impacted)

\* on_device_event without the test that an impacted id is in _conditions
on_device_event_unfiltered(E, d, v) ==
    IF d \notin DOMAIN E.device_to_conditions THEN {E}
    ELSE UNION {deliver_and_process(E, impacted, v) :
                   impacted \in Orders(E.device_to_conditions[d])}

\* on_device_event: the engine lock is not taken.  impacted is built by
\* iterating a set of instance ids, in an order the program does not
\* control
on_device_event(E, d, v) ==
    IF d \notin DOMAIN E.device_to_conditions THEN {E}
    ELSE UNION {deliver_and_process(E, impacted, v) :
                   impacted \in Orders({c \in E.device_to_conditions[d] : Tracked(E, c)})}

\* _on_condition_timeout._on_timeout, with the notifier (c, g) it captured
_on_timeout(E, c, g) ==
    LET E1 == IF Tracked(E, c) /\ E.conditions[c].g = 0
              THEN [E EXCEPT !.timed_out = @ \cup {c}]
              ELSE E
        E2 == remove_condition(E1, c)
    IN {IF E2.blocked THEN E2 ELSE notify_timeout(E2, c, g)}

\* _handle_duration_completion, with the notifier (c, g) it captured
_handle_duration_completion(E, c, g) ==
    LET L == acquire(E)
    IN IF L.blocked THEN {L}
       ELSE IF Tracked(L, c) /\ L.conditions[c].st = DURATION_PENDING
       THEN LET E1 == cancel_timer(L, condition_timeout(c))
                E2 == [E1 EXCEPT !.conditions[c].st = TRUE_]
                ps == SelectSeq(SeqOf(E2.condition_deps[c]), LAMBDA p : Tracked(E2, p))
                E3 == notify_parents(E2, ps, c, TRUE)
                after == IF Len(ps) > 0 THEN _process_condition_change(E3, ps) ELSE {E3}
            IN {IF E4.raised THEN release(E4)
                ELSE notify(release(IF ~_has_dependents(E4, c)
                                    THEN _remove_condition(E4, c)
                                    ELSE E4),
                            c, g) : E4 \in after}
       ELSE {notify(release(L), c, g)}

(***************************************************************************)
(* add_condition.  The call stack of _add_condition and                    *)
(* _initialize_sub_conditions is explicit: a frame is one _add_condition   *)
(* call, i the index of the subcondition its _initialize_sub_conditions    *)
(* loop is at, ist the init_cond_states collected so far, seen the values  *)
(* the hub held while get_bulk_attributes of this frame was in flight.     *)
(* Each operator runs the code up to the next suspension and returns the   *)
(* state and the stack; an empty stack means add_condition returned.       *)
(***************************************************************************)
Top(stack) == stack[Len(stack)]
Pop(stack) == SubSeq(stack, 1, Len(stack) - 1)

RECURSIVE _add_condition(_, _, _, _)
RECURSIVE _initialize_sub_conditions(_, _)
RECURSIVE _add_condition_initialize(_, _, _)

\* _add_condition, from its entry to the call of _initialize_sub_conditions
_add_condition(E, stack, c, g) ==
    LET m == E.device_to_conditions
        E1 == [E EXCEPT !.device_to_conditions =
                  [d \in DOMAIN m \cup Range(device_ids(c)) |->
                      IF d \in Range(device_ids(c))
                      THEN (IF d \in DOMAIN m THEN m[d] ELSE {}) \cup {c}
                      ELSE m[d]]]
        frame == [c |-> c, g |-> g, i |-> 1,
                  ist |-> [x \in Conds |-> FALSE], seen |-> {}]
    IN _initialize_sub_conditions(E1, Append(stack, frame))

\* the loop of _initialize_sub_conditions, then get_bulk_attributes
_initialize_sub_conditions(E, stack) ==
    LET f == Top(stack)
        n == Len(stack)
    IN IF f.i > Len(subconditions(f.c))
       THEN IF device_ids(f.c) = <<>>
            THEN _add_condition_initialize(E, stack, NoValue)
            ELSE [E |-> E,
                  stack |-> [stack EXCEPT ![n].seen = {hub[device_ids(f.c)[1]]}]]
       ELSE LET sub == subconditions(f.c)[f.i]
                E1 == [E EXCEPT !.condition_deps[sub] = @ \cup {f.c}]
            IN IF ~Tracked(E1, sub)
               THEN _add_condition(E1, stack, sub, 0)
               ELSE _initialize_sub_conditions(E1,
                        [stack EXCEPT ![n].ist[sub] = (E1.conditions[sub].st = TRUE_),
                                      ![n].i = @ + 1])

\* _add_condition from condition.initialize to its end, then the rest of
\* the caller's loop
_add_condition_initialize(E, stack, attr) ==
    LET f == Top(stack)
        c == f.c
        E1 == initialize(E, c, attr, f.ist)
        initial_state == ToState(evaluate(E1, c), c)
        E2 == [E1 EXCEPT !.conditions[c] = [g |-> f.g, st |-> initial_state],
                         !.timed_out = @ \ {c}]
        E3 == IF timeout(c) THEN start_timer(E2, condition_timeout(c), f.g) ELSE E2
        E4 == IF initial_state = DURATION_PENDING
              THEN start_timer(E3, condition_duration(c), f.g)
              ELSE E3
        rest == Pop(stack)
        m == Len(rest)
    IN IF evaluate_raises(E1, c)
       THEN [E |-> E1, stack |-> <<>>]    \* the exception leaves add_condition
       ELSE IF rest = <<>> THEN [E |-> E4, stack |-> <<>>]
       ELSE _initialize_sub_conditions(E4,
                [rest EXCEPT ![m].ist[c] = (E4.conditions[c].st = TRUE_),
                             ![m].i = @ + 1])

(***************************************************************************)
(* The applications explored: the set of condition objects that the        *)
(* application passes to add_condition.  P brings A and B as               *)
(* subconditions.                                                          *)
(***************************************************************************)
Applications == {{"A"}, {"S"}, {"A", "S"}, {"P"}, {"Q", "O"}, {"G"}, {"R", "N"}}

\* the values that the hub reports: null only to the application whose
\* condition orders the value
EventValues == Values \cup (IF "R" \in registered THEN {NoValue} ELSE {})

\* the applications in which the class and the operator of the parents
\* vary; in the others the parents are And of the class ParentCondition
HasParent(cs) == cs \cap {"P", "G"} # {}

\* the devices that the conditions of an application, and their
\* subconditions, name: the hub is subscribed to these
RECURSIVE DevicesOf(_)
DevicesOf(cs) ==
    UNION {Range(device_ids(c)) \cup DevicesOf(Range(subconditions(c))) : c \in cs}

(***************************************************************************)
(* The timer service as its client starts it in main.py, and the record of *)
(* the calls of a client of the service, none made yet.                    *)
(***************************************************************************)
TimerClientInit ==
    /\ stale = {}
    /\ processor = TRUE
    /\ runs = <<>>
    /\ started = <<>>
    /\ cancelled = {}
    /\ replaced = {}
    /\ was_reset = {}
    /\ stopped = FALSE
    /\ ncalls = 0

\* RuleHandler.__init__
Names == {"r1", "r2"}

RuleHandlerInit ==
    /\ active_rules = [name \in Names |-> 0]
    /\ tasks = <<>>
    /\ installing = [name \in Names |-> 0]
    /\ ninstalls = 0

(***************************************************************************)
(* The state after construction: an engine that tracks nothing.            *)
(***************************************************************************)
Init ==
    /\ conditions = [c \in Conds |-> NoCond]
    /\ condition_deps = [c \in Conds |-> {}]
    /\ device_to_conditions = [d \in {} |-> {}]
    /\ adding = <<>>
    /\ cur = [c \in Leaves |-> NoValue]
    /\ childSt = [p \in Parents |-> [s \in Range(subconditions(p)) |-> FALSE]]
    /\ registered \in Applications
    /\ operator \in (IF HasParent(registered) THEN {"and", "or"} ELSE {"and"})
    /\ parentClass \in (IF HasParent(registered)
                        THEN {"BooleanCondition", "ParentCondition"}
                        ELSE {"ParentCondition"})
    /\ hub \in {h \in [Devices -> Values] :
                   \A d \in Devices \ DevicesOf(registered) : h[d] = "off"}
    /\ queue = <<>>
    /\ timers = [id \in TimerIds |-> NoTimer]
    /\ zombies = {}
    /\ orphans = {}
    /\ fire = [c \in Conds |-> [g \in 1..MaxRegs |-> 0]]
    /\ tout = [c \in Conds |-> [g \in 1..MaxRegs |-> 0]]
    /\ gen = [c \in Conds |-> 0]
    /\ nevents = 0
    /\ reported = [p \in Parents |-> [s \in Range(subconditions(p)) |-> NoReport]]
    /\ timed_out = {}
    /\ TimerClientInit
    /\ RuleHandlerInit

\* the add_condition calls made so far
RECURSIVE TotalAdds(_)
TotalAdds(cs) ==
    IF cs = {} THEN 0
    ELSE LET c == CHOOSE x \in cs : TRUE
         IN gen[c] + TotalAdds(cs \ {c})

Frame ==
    UNCHANGED <<operator, parentClass, registered, processor, runs, started,
                cancelled, replaced, was_reset, stopped, ncalls,
                active_rules, tasks, installing, ninstalls>>

LockFree == adding = <<>>

\* add_condition(c, condition_event, timeout_event) by a caller that
\* acquires the lock at once
AddCondition(c) ==
    /\ LockFree
    /\ c \in registered
    /\ conditions[c] = NoCond
    /\ gen[c] < MaxRegs
    /\ TotalAdds(registered) < MaxAdds
    /\ LET r == _add_condition(Pack, <<>>, c, gen[c] + 1)
       IN /\ Unpack(r.E)
          /\ adding' = r.stack
    /\ gen' = [gen EXCEPT ![c] = @ + 1]
    /\ UNCHANGED <<hub, nevents>>
    /\ Frame

\* get_bulk_attributes of the innermost _add_condition returns
AddResume ==
    /\ ~LockFree
    /\ \E v \in Top(adding).seen :
          LET r == _add_condition_initialize(Pack, adding, v)
          IN /\ Unpack(r.E)
             /\ adding' = r.stack
    /\ UNCHANGED <<hub, nevents, gen>>
    /\ Frame

\* remove_condition(c) by the caller that added c
RemoveCondition(c) ==
    /\ LockFree
    /\ c \in registered
    /\ gen[c] >= 1
    /\ Unpack(remove_condition(Pack, c))
    /\ UNCHANGED <<adding, hub, nevents, gen>>
    /\ Frame

\* the webhook task: the attribute of device d becomes v and
\* on_device_event runs
OnDeviceEvent(d, v) ==
    /\ nevents < MaxEvents
    /\ d \in DevicesOf(registered)
    /\ v \in EventValues
    /\ nevents' = nevents + 1
    /\ hub' = [hub EXCEPT ![d] = v]
    /\ \E E \in on_device_event(Pack, d, v) : Unpack(E)
    /\ adding' = IF ~LockFree /\ d \in Range(device_ids(Top(adding).c))
                 THEN [adding EXCEPT ![Len(adding)].seen = @ \cup {v}]
                 ELSE adding
    /\ UNCHANGED gen
    /\ Frame

\* the dispatcher task of the timer service runs
ProcessQueue ==
    /\ queue # <<>>
    /\ Unpack(process_queue(Pack))
    /\ UNCHANGED <<adding, hub, nevents, gen>>
    /\ Frame

\* the callback of a timer, by kind
callback(E, id, g) ==
    IF id.kind = "condition_timeout"
    THEN _on_timeout(E, id.c, g)
    ELSE _handle_duration_completion(E, id.c, g)

\* timer_task of a timer of the index: the sleep is over, the callback
\* runs (it gets the lock), then the finally block
TimerElapse(id) ==
    /\ timers[id] # NoTimer
    /\ id \notin stale
    /\ LockFree
    /\ \E E \in callback([Pack EXCEPT !.self = id], id, timers[id].g) :
          Unpack(timer_task_finally(E, id))
    /\ UNCHANGED <<adding, hub, nevents, gen>>
    /\ Frame

\* the same for a live task that the index has lost
OrphanElapse(t) ==
    /\ t \in orphans
    /\ LockFree
    /\ \E E \in callback([Pack EXCEPT !.orphans = @ \ {t}], t.id, t.g) :
          Unpack(timer_task_finally(E, t.id))
    /\ UNCHANGED <<adding, hub, nevents, gen>>
    /\ Frame

\* a cancelled timer task is scheduled: CancelledError, then finally
CancelledTaskFinally(id) ==
    /\ id \in zombies
    /\ Unpack(timer_task_finally([Pack EXCEPT !.zombies = @ \ {id}], id))
    /\ UNCHANGED <<adding, hub, nevents, gen>>
    /\ Frame

Next ==
    \/ \E c \in Conds : AddCondition(c)
    \/ AddResume
    \/ \E c \in Conds : RemoveCondition(c)
    \/ \E d \in Devices, v \in Values \cup {NoValue} : OnDeviceEvent(d, v)
    \/ ProcessQueue
    \/ \E id \in TimerIds : TimerElapse(id)
    \/ \E t \in orphans : OrphanElapse(t)
    \/ \E id \in TimerIds : CancelledTaskFinally(id)

Spec == Init /\ [][Next]_vars

TypeOK ==
    /\ \A c \in Conds : conditions[c] = NoCond \/ conditions[c].st \in ConditionState
    /\ \A c \in Conds : condition_deps[c] \subseteq Conds
    /\ \A c \in Leaves : cur[c] \in {True_, False_, NoValue}
    /\ DOMAIN device_to_conditions \subseteq Devices
    /\ \A d \in DOMAIN device_to_conditions : device_to_conditions[d] \subseteq Conds

(***************************************************************************)
(* Steps and timer facts that the properties below speak of.               *)
(***************************************************************************)
\* the timer task of identifier id, held by the index or not, runs its
\* callback
Elapses(id) ==
    \/ TimerElapse(id)
    \/ \E t \in orphans : t.id = id /\ OrphanElapse(t)

\* a start request or a sleeping task exists for identifier id
Live(id) ==
    \/ timers[id] # NoTimer
    \/ \E i \in DOMAIN queue : queue[i].id = id
    \/ \E t \in orphans : t.id = id

\* add_condition(c) returns in this step
AddReturns(c) ==
    /\ adding' = <<>>
    /\ \/ AddCondition(c)
       \/ AddResume /\ adding[1].c = c

\* c is tracked with the notifier of a registration and the stored state st
TrackedAs(c, st) ==
    /\ conditions[c] # NoCond
    /\ conditions[c].g >= 1
    /\ conditions[c].st = st

(***************************************************************************)
(* C1.  For a tracked condition without duration whose stored state is     *)
(* FALSE, a device event that makes its predicate true raises its fire     *)
(* signal exactly once, and the condition is no longer tracked when        *)
(* on_device_event returns.                                                *)
(***************************************************************************)
C1_FiresAndUntracks ==
    [][\A c \in Leaves : \A d \in Range(device_ids(c)) :
          (/\ ~duration(c)
           /\ TrackedAs(c, FALSE_)
           /\ \E v \in Values : _cast_value(v) = literal /\ OnDeviceEvent(d, v))
          => /\ fire'[c][conditions[c].g] = fire[c][conditions[c].g] + 1
             /\ conditions'[c] = NoCond]_vars

(***************************************************************************)
(* C2.  Whenever a child's stored state is DURATION_PENDING every parent   *)
(* is told the child is false, in propagation and at registration, and a   *)
(* parent is told true only when the child's stored state is TRUE.         *)
(***************************************************************************)
C2_PendingLooksFalse ==
    /\ \A p \in Parents : \A c \in Range(subconditions(p)) :
          /\ reported[p][c].st = DURATION_PENDING => ~reported[p][c].triggered
          /\ reported[p][c].triggered => reported[p][c].st = TRUE_
    /\ \A c \in Conds : \A p \in condition_deps[c] :
          (/\ conditions[c] # NoCond
           /\ conditions[c].st = DURATION_PENDING
           /\ conditions[p] # NoCond)
          => ~reported[p][c].triggered

\* the C2 case: P was given "true" for B at its registration although B's
\* stored state was FALSE by then
C2_StaleInitialState ==
    reported["P"]["B"] = [triggered |-> TRUE, st |-> FALSE_]

(***************************************************************************)
(* C3.  For a condition with a duration that goes from FALSE to            *)
(* DURATION_PENDING and whose predicate stays true, the fire signal is not *)
(* raised before the condition_duration timer elapses, and it is raised    *)
(* exactly once when the timer elapses.                                    *)
(***************************************************************************)
C3_FiresOnceOnElapse ==
    [][\A c \in Conds : duration(c) =>
          \* a timer whose start request is still queued has not elapsed
          /\ (/\ TrackedAs(c, DURATION_PENDING)
              /\ \E i \in DOMAIN queue : queue[i].id = condition_duration(c))
             => fire'[c] = fire[c]
          /\ fire'[c] # fire[c] => Elapses(condition_duration(c))
          /\ (/\ TrackedAs(c, DURATION_PENDING)
              /\ cur[c] = literal
              /\ Elapses(condition_duration(c)))
             => fire'[c][conditions[c].g] = fire[c][conditions[c].g] + 1]_vars

(***************************************************************************)
(* C4.  If a DURATION_PENDING condition receives a device event that makes *)
(* its predicate false before its duration timer has elapsed, the duration *)
(* timer is cancelled and the fire signal is not raised for that pending   *)
(* period.                                                                 *)
(***************************************************************************)
C4_FalseCancelsDuration ==
    /\ [][\A c \in Leaves : \A d \in Range(device_ids(c)) : \A v \in Values :
             (/\ duration(c)
              /\ _cast_value(v) # literal
              /\ TrackedAs(c, DURATION_PENDING)
              /\ OnDeviceEvent(d, v))
             => ~Live(condition_duration(c))']_vars
    /\ [][\A c \in Leaves :
             (duration(c) /\ TrackedAs(c, FALSE_))
             => fire'[c][conditions[c].g] = fire[c][conditions[c].g]]_vars

(***************************************************************************)
(* C5.  For a condition registered with a timeout that does not fire       *)
(* first, the expiry of its condition_timeout timer raises the timeout     *)
(* signal exactly once and removes the condition, and the fire signal is   *)
(* never raised for that registration.                                     *)
(***************************************************************************)
C5_TimeoutEndsRegistration ==
    /\ [](\A c \in Conds : \A g \in 1..MaxRegs : tout[c][g] <= 1)
    /\ [][\A c \in Conds : timeout(c) =>
             /\ (/\ conditions[c] # NoCond
                 /\ conditions[c].g >= 1
                 /\ fire[c][conditions[c].g] = 0
                 /\ timers[condition_timeout(c)] # NoTimer
                 /\ timers[condition_timeout(c)].g = conditions[c].g
                 /\ TimerElapse(condition_timeout(c)))
                => /\ tout'[c][conditions[c].g] = 1
                   /\ conditions'[c] = NoCond
             /\ \A g \in 1..MaxRegs :
                   (tout[c][g] >= 1 /\ fire[c][g] = 0) => fire'[c][g] = 0]_vars

(***************************************************************************)
(* C6.  add_condition of a condition without duration whose initialize     *)
(* returns true raises the fire signal before add_condition returns,       *)
(* cancels its timeout timer, and removes the condition if it has no       *)
(* dependents.                                                             *)
(***************************************************************************)
C6_ImmediatelyTrue ==
    [][\A c \in Leaves :
          (/\ ~duration(c)
           /\ AddReturns(c)
           /\ cur'[c] = literal)
          => /\ fire'[c][gen'[c]] = 1
             /\ ~Live(condition_timeout(c))'
             /\ conditions'[c] = NoCond]_vars

(***************************************************************************)
(* C7.  For a parent And(A, B) with A debounced and B not: while A is      *)
(* DURATION_PENDING a device event that makes B true does not raise the    *)
(* parent's fire signal, and when A's duration timer then elapses with     *)
(* both predicates still true the parent's fire signal is raised.          *)
(***************************************************************************)
C7_AndWaitsForDebounce ==
    [][(/\ operator = "and"
        /\ TrackedAs("P", FALSE_)
        /\ conditions["A"] # NoCond
        /\ conditions["A"].st = DURATION_PENDING
        /\ "P" \in condition_deps["A"])
       => /\ (\E v \in Values : /\ _cast_value(v) = literal
                                 /\ OnDeviceEvent(device_ids("B")[1], v))
             => fire'["P"] = fire["P"]
          /\ (/\ cur["A"] = literal
              /\ cur["B"] = literal
              /\ \A d \in Devices : _cast_value(hub[d]) = literal
              /\ Elapses(condition_duration("A")))
             => fire'["P"][conditions["P"].g] = fire["P"][conditions["P"].g] + 1]_vars

(***************************************************************************)
(* C8.  The evaluate() of a BooleanCondition uses, for each child, the     *)
(* state the engine reported last (the initial states given to initialize, *)
(* then every on_condition_event), so an "or" whose child was last         *)
(* reported TRUE evaluates true.                                           *)
(***************************************************************************)
C8_UsesLatestReport ==
    parentClass = "BooleanCondition" =>
        \A p \in Parents :
            /\ \A s \in Range(subconditions(p)) :
                  childSt[p][s] = reported[p][s].triggered
            /\ (operator = "or" /\ \E s \in Range(subconditions(p)) :
                                      reported[p][s].triggered)
               => evaluate(Pack, p)

C10_FireExcludesTimeout ==
    /\ [](\A c \in Conds : \A g \in 1..MaxRegs : ~(fire[c][g] >= 1 /\ tout[c][g] >= 1))
    /\ [][\A c \in Conds : \A g \in 1..MaxRegs :
             fire'[c][g] > fire[c][g] => ~Live(condition_timeout(c))']_vars

(***************************************************************************)
(* C11.  Every mutation of conditions, condition_deps and                  *)
(* device_to_conditions happens while the engine lock is held by the task  *)
(* that mutates: while add_condition holds the lock, no step of another    *)
(* task (a device event dispatch, a timer callback, remove_condition)      *)
(* changes the indices.                                                    *)
(***************************************************************************)
C11_MutationsUnderLock ==
    [][(~LockFree /\ ~AddResume)
       => UNCHANGED <<conditions, condition_deps, device_to_conditions>>]_vars

(***************************************************************************)
(* C12.  Within one on_device_event call, on_device_event(e) is invoked    *)
(* exactly once on every tracked condition whose device_ids contain the    *)
(* device of the event, on no other condition, and all these invocations   *)
(* come before any evaluate() of that call.                                *)
(***************************************************************************)
Deliveries(log, c) ==
    {i \in DOMAIN log : log[i] = Call("on_device_event", c, "none")}

C12_DeliveredOnceBeforeEvaluate ==
    [][\A d \in Devices, v \in Values \cup {NoValue} :
          OnDeviceEvent(d, v) =>
             \A E \in on_device_event(Pack, d, v) :
                /\ \A c \in Conds :
                      Cardinality(Deliveries(E.log, c)) =
                         IF conditions[c] # NoCond /\ d \in Range(device_ids(c))
                         THEN 1 ELSE 0
                /\ \A i, j \in DOMAIN E.log :
                      (E.log[i].op = "on_device_event" /\ E.log[j].op = "evaluate")
                      => i < j]_vars

\* the C12 case: A and S, both on device 1, were tracked as FALSE when the
\* one event arrived; S has fired and the duration timer of A was requested
\* after both registrations
C12_BothDelivered ==
    /\ registered = {"A", "S"}
    /\ nevents = 1
    /\ cur["A"] = True_
    /\ cur["S"] = True_
    /\ fire["S"][1] = 1
    /\ TrackedAs("A", DURATION_PENDING)
    /\ queue = <<[id |-> condition_timeout("A"), g |-> 1],
                 [id |-> condition_timeout("S"), g |-> 1],
                 [id |-> condition_duration("A"), g |-> 1]>>

(***************************************************************************)
(* C13.  In a single propagation each parent's on_condition_event(child,   *)
(* ...) is invoked exactly once per edge from a changed child to a tracked *)
(* parent, whatever the shape of the graph.                                *)
(***************************************************************************)
Walks(log, p, c) ==
    {i \in DOMAIN log : log[i] = Call("on_condition_event", p, c)}

Evaluated(log, c) ==
    \E i \in DOMAIN log : log[i] = Call("evaluate", c, "none")

C13_EachEdgeOnce ==
    [][\A d \in Devices, v \in Values \cup {NoValue} :
          OnDeviceEvent(d, v) =>
             \A E \in on_device_event(Pack, d, v) :
                ~E.raised =>
                   \A c \in Conds, p \in Parents :
                      Cardinality(Walks(E.log, p, c)) =
                         IF /\ Evaluated(E.log, c)
                            /\ p \in condition_deps[c]
                            /\ conditions[p] # NoCond
                         THEN 1 ELSE 0]_vars

(***************************************************************************)
(* C14.  The firing rules are applied to every touched condition of a      *)
(* dispatch: each one that went from FALSE to TRUE has its fire signal     *)
(* raised, and each one that went from FALSE to DURATION_PENDING has its   *)
(* duration timer started, whatever the order of processing and whatever   *)
(* the other touched conditions did.                                       *)
(***************************************************************************)
C14_EveryTouchedProcessed ==
    [][\A c \in Conds :
          (/\ TrackedAs(c, FALSE_)
           /\ \E d \in Devices, v \in Values : OnDeviceEvent(d, v)
           /\ conditions'[c] # NoCond)
          => /\ conditions'[c].st = TRUE_
                => fire'[c][conditions[c].g] = fire[c][conditions[c].g] + 1
             /\ conditions'[c].st = DURATION_PENDING
                => \E i \in DOMAIN queue' :
                      /\ i > Len(queue)
                      /\ queue'[i] = [id |-> condition_duration(c),
                                      g |-> conditions[c].g]]_vars

(***************************************************************************)
(* C15.  A condition that becomes TRUE, by propagation or by duration      *)
(* completion, while another tracked condition still depends on it is not  *)
(* removed: it is removed on firing only when it has no dependents.        *)
(***************************************************************************)
C15_KeptWhileDependedOn ==
    [][\A c \in Conds : \A p \in condition_deps[c] :
          (/\ conditions[c] # NoCond
           /\ conditions[c].st # TRUE_
           /\ conditions[p] # NoCond
           /\ conditions'[p] # NoCond
           /\ \/ \E d \in Devices, v \in Values : OnDeviceEvent(d, v)
              \/ Elapses(condition_duration(c)))
          => conditions'[c] # NoCond]_vars

(***************************************************************************)
(* C16.  remove_condition(p) removes a descendant of p only if it has no   *)
(* remaining dependents: a subcondition that is also a subcondition of     *)
(* another tracked parent stays tracked, with its timers and its edge to   *)
(* the other parent intact.                                                *)
(***************************************************************************)
C16_SharedSubconditionKept ==
    [][\A p \in Conds : RemoveCondition(p) =>
          \A c \in Range(subconditions(p)) : \A q \in condition_deps[c] \ {p} :
             (/\ conditions[p] # NoCond
              /\ conditions[c] # NoCond
              /\ conditions[q] # NoCond)
             => /\ conditions'[c] = conditions[c]
                /\ q \in condition_deps'[c]
                /\ timers'[condition_timeout(c)] = timers[condition_timeout(c)]
                /\ timers'[condition_duration(c)] = timers[condition_duration(c)]]_vars

(***************************************************************************)
(* C17.  After remove_condition(root) completes, with no add_condition in  *)
(* progress, conditions, condition_deps (keys and value sets) and          *)
(* device_to_conditions hold no entry that references root or a descendant *)
(* removed with it, and no device maps to an empty set.                    *)
(***************************************************************************)
\* stated on every state in which remove_condition(root) can run, of the
\* state E that the call leaves: a call that changes nothing counts too
C17_RemoveLeavesNoReference ==
    \A root \in registered :
        (LockFree /\ gen[root] >= 1) =>
           LET E == _remove_condition(Pack, root)
               gone == {root} \cup {c \in Conds : conditions[c] # NoCond
                                                 /\ E.conditions[c] = NoCond}
           IN /\ \A x \in gone :
                    /\ E.conditions[x] = NoCond
                    /\ E.condition_deps[x] = {}
                    /\ \A k \in Conds : x \notin E.condition_deps[k]
                    /\ \A d \in DOMAIN E.device_to_conditions :
                          x \notin E.device_to_conditions[d]
              /\ \A d \in DOMAIN E.device_to_conditions :
                    E.device_to_conditions[d] # {}

(***************************************************************************)
(* C18.  When the timeout timer of a subcondition fires, only that         *)
(* subcondition and its own descendants are removed: every other condition *)
(* keeps its entry, every ancestor its stored state, and an ancestor goes  *)
(* on firing on its other children.                                        *)
(***************************************************************************)
RECURSIVE Descendants(_)
Descendants(c) ==
    UNION {{s} \cup Descendants(s) : s \in Range(subconditions(c))}

C18_TimeoutSparesAncestors ==
    [][/\ \A c \in Conds :
             (/\ conditions[c] # NoCond
              /\ \E p \in condition_deps[c] : conditions[p] # NoCond
              /\ Elapses(condition_timeout(c)))
             => /\ conditions'[c] = NoCond
                /\ \A x \in Conds \ ({c} \cup Descendants(c)) :
                      conditions'[x] = conditions[x]
       /\ \A p \in Parents : \A b \in Range(subconditions(p)) \cap Leaves :
             (/\ operator = "or"
              /\ TrackedAs(p, FALSE_)
              /\ \E c \in Range(subconditions(p)) \ {b} :
                    c \in timed_out /\ conditions[c] = NoCond
              /\ conditions[b] # NoCond
              /\ conditions[b].st = FALSE_
              /\ p \in condition_deps[b]
              /\ \E v \in Values :
                    /\ evaluate([Pack EXCEPT !.cur[b] = _cast_value(v)], b)
                    /\ OnDeviceEvent(device_ids(b)[1], v))
             => fire'[p][conditions[p].g] = fire[p][conditions[p].g] + 1]_vars

(***************************************************************************)
(* C19.  remove_condition(c) is idempotent: called on a condition that is  *)
(* not tracked, or a second time in a row, it raises no error and leaves   *)
(* conditions, condition_deps and device_to_conditions as they were after  *)
(* the first call.                                                         *)
(***************************************************************************)
Indices(E) == <<E.conditions, E.condition_deps, E.device_to_conditions>>

\* stated on every state in which remove_condition(c) can run, of the
\* states that one call and two calls in a row leave
C19_RemoveIdempotent ==
    \A c \in registered :
        (LockFree /\ gen[c] >= 1) =>
           LET once == _remove_condition(Pack, c)
               twice == _remove_condition(once, c)
           IN /\ ~once.raised /\ ~twice.raised
              /\ Indices(twice) = Indices(once)
              /\ conditions[c] = NoCond => Indices(once) = Indices(Pack)

\* the C19 case: S was registered and remove_condition(S) has removed it
\* (it has neither fired nor timed out), and remove_condition(S) can run
\* again
C19_RemovedOnce ==
    /\ registered = {"S"}
    /\ LockFree
    /\ gen["S"] = 1
    /\ conditions["S"] = NoCond
    /\ fire["S"][1] = 0
    /\ tout["S"][1] = 0

(***************************************************************************)
(* C20.  If the evaluate() of a condition raises during propagation, that  *)
(* condition is treated as false for that cycle and propagation goes on:   *)
(* on_device_event does not raise, and the other conditions of the         *)
(* frontier are still evaluated and still fire.                            *)
(***************************************************************************)
\* the condition object c once the value v is delivered to it
Delivered(c, v) == [Pack EXCEPT !.cur[c] = _cast_value(v)]

C20_RaisingEvaluateIsFalse ==
    [][\A d \in Devices, v \in Values \cup {NoValue} : \A r \in Leaves :
          (/\ OnDeviceEvent(d, v)
           /\ conditions[r] # NoCond
           /\ d \in Range(device_ids(r))
           /\ evaluate_raises(Delivered(r, v), r))
          => /\ \A E \in on_device_event(Pack, d, v) : ~E.raised
             /\ conditions'[r] # NoCond /\ conditions'[r].st = FALSE_
             /\ \A c \in Leaves \ {r} :
                   (/\ TrackedAs(c, FALSE_)
                    /\ ~duration(c)
                    /\ d \in Range(device_ids(c))
                    /\ ~evaluate_raises(Delivered(c, v), c)
                    /\ evaluate(Delivered(c, v), c))
                   => fire'[c][conditions[c].g] = fire[c][conditions[c].g] + 1]_vars

(***************************************************************************)
(* C21: a missing index entry never makes an engine operation fail.  In    *)
(* every reachable state, no device event that can be dispatched and no    *)
(* timer callback that can run ends with the KeyError of a lookup in       *)
(* _conditions or in the snapshot of it: a parent named by                 *)
(* _condition_deps that is not tracked is not put on the work list, and a  *)
(* touched condition that a firing has removed is passed over by the loop  *)
(* of _process_condition_change.                                           *)
(***************************************************************************)
\* the outcomes of the timer callbacks that can run now
CallbackOutcomes ==
    IF ~LockFree THEN {}
    ELSE UNION ({callback([Pack EXCEPT !.self = id], id, timers[id].g) :
                    id \in {x \in TimerIds : timers[x] # NoTimer}}
                \cup {callback([Pack EXCEPT !.orphans = @ \ {t}], t.id, t.g) :
                         t \in orphans})

\* the outcomes of the device events that can be dispatched now
DispatchOutcomes ==
    UNION {on_device_event(Pack, d, v) :
              d \in DevicesOf(registered), v \in EventValues}

Skips(E, c, arg) == \E i \in DOMAIN E.log : E.log[i] = Call("skip", c, arg)

C21_MissingEntrySkipped ==
    \A E \in DispatchOutcomes \cup CallbackOutcomes : ~E.missing

\* a dispatch passes over an untracked parent and one passes over a touched
\* condition that the firing of its parent removed; a duration callback
\* passes over a touched condition too
C21_RemovedReached ==
    /\ \E E \in DispatchOutcomes :
          \E p \in Parents : \E c \in Range(subconditions(p)) : Skips(E, p, c)
    /\ \E E \in DispatchOutcomes :
          \E c \in Conds : conditions[c] # NoCond /\ Skips(E, c, "none")

(***************************************************************************)
(* C22: the duration completion of a condition that has dependents         *)
(* terminates and releases the engine lock.  Whenever the duration         *)
(* callback of a pending condition with a tracked parent can run, each of  *)
(* its outcomes has acquired _engine_lock exactly once, does not wait for  *)
(* the lock that it holds, and has released it at the end: the             *)
(* propagation, the firing of the parents and the removals use the         *)
(* methods that do not take the lock.                                      *)
(***************************************************************************)
\* the generations of the live duration timer tasks of c
DurationTasks(c) ==
    {timers[condition_duration(c)].g : x \in {y \in {c} : timers[condition_duration(y)] # NoTimer}}
    \cup {t.g : t \in {o \in orphans : o.id = condition_duration(c)}}

HasDependents(c) == \E p \in condition_deps[c] : conditions[p] # NoCond

\* the outcomes of the duration callback of c, when it can run now on a
\* pending c that has dependents
CompletionOutcomes(c) ==
    IF LockFree /\ conditions[c].st = DURATION_PENDING /\ HasDependents(c)
    THEN UNION {_handle_duration_completion(
                    [Pack EXCEPT !.self = condition_duration(c)], c, g) :
                    g \in DurationTasks(c)}
    ELSE {}

C22_CompletionReleasesLock ==
    \A c \in Conds : \A E \in CompletionOutcomes(c) :
        ~E.blocked /\ ~E.lock /\ E.acquired = 1

\* a completion that fires a parent and removes it under the held lock
C22_ParentFiredUnderLock ==
    \E c \in Conds : \E E \in CompletionOutcomes(c) :
        \E p \in condition_deps[c] :
            /\ conditions[p] # NoCond
            /\ E.conditions[p] = NoCond
            /\ E.fire[p] # fire[p]

(***************************************************************************)
(* The timer service on its own, under a client that calls its public      *)
(* methods in any order.  The g of a request is the number of the          *)
(* start_timer call that passed its duration and its callback; the         *)
(* callbacks do nothing to the service.  The engine is not used: its       *)
(* variables keep the values of an engine that tracks nothing.             *)
(***************************************************************************)
MaxCalls == 4

ClientTimerIds == {condition_timeout("A"), condition_duration("A")}

\* an engine that tracks nothing, for the condition objects reg and maxg
\* registrations of each
QuietEngine(reg, maxg) ==
    /\ conditions = [c \in Conds |-> NoCond]
    /\ condition_deps = [c \in Conds |-> {}]
    /\ device_to_conditions = [d \in {} |-> {}]
    /\ adding = <<>>
    /\ cur = [c \in Leaves |-> NoValue]
    /\ childSt = [p \in Parents |-> [x \in Range(subconditions(p)) |-> FALSE]]
    /\ registered = reg
    /\ operator = "and"
    /\ parentClass = "ParentCondition"
    /\ hub = [d \in Devices |-> "off"]
    /\ fire = [c \in Conds |-> [g \in 1..maxg |-> 0]]
    /\ tout = [c \in Conds |-> [g \in 1..maxg |-> 0]]
    /\ gen = [c \in Conds |-> 0]
    /\ nevents = 0
    /\ reported = [p \in Parents |-> [x \in Range(subconditions(p)) |-> NoReport]]
    /\ timed_out = {}

\* a timer service that was constructed, with the started flag given
QuietTimers(running) ==
    /\ queue = <<>>
    /\ timers = [id \in TimerIds |-> NoTimer]
    /\ zombies = {}
    /\ orphans = {}
    /\ stale = {}
    /\ processor = running
    /\ runs = <<>>
    /\ started = <<>>
    /\ cancelled = {}
    /\ replaced = {}
    /\ was_reset = {}
    /\ stopped = FALSE
    /\ ncalls = 0

TimerInit ==
    /\ QuietEngine({}, MaxRegs)
    /\ QuietTimers(FALSE)
    /\ RuleHandlerInit

TimerFrame ==
    UNCHANGED <<adding, hub, nevents, gen, operator, parentClass, registered,
                active_rules, tasks, installing, ninstalls>>

\* the runs of the callback of the start_timer call n
Ran(n) == Cardinality({i \in DOMAIN runs : runs[i].n = n})

\* the start_timer calls that have a timer task which has not run its
\* callback and is not cancelled, under the identifier id
LiveCalls(id) ==
    {timers[x].g : x \in {y \in {id} : timers[y] # NoTimer /\ y \notin stale}}
    \cup {t.g : t \in {o \in orphans : o.id = id}}

\* TimerService.start, called once as main.py does
Start ==
    /\ ~processor
    /\ ~stopped
    /\ processor' = TRUE
    /\ stopped' = FALSE
    /\ Unpack(Pack)
    /\ UNCHANGED <<runs, started, cancelled, replaced, was_reset, ncalls>>
    /\ TimerFrame

\* TimerService.stop, from the call to the return: the processor task is
\* cancelled and awaited
Stop ==
    /\ processor \/ ~stopped
    /\ processor' = FALSE
    /\ stopped' = TRUE
    /\ Unpack(Pack)
    /\ UNCHANGED <<runs, started, cancelled, replaced, was_reset, ncalls>>
    /\ TimerFrame

\* the client calls start_timer(id, d, f)
StartTimer(id) ==
    /\ ncalls < MaxCalls
    /\ ncalls' = ncalls + 1
    /\ Unpack(start_timer(Pack, id, Len(started) + 1))
    /\ started' = Append(started, id)
    /\ UNCHANGED <<processor, runs, cancelled, replaced, was_reset, stopped>>
    /\ TimerFrame

\* the client calls cancel_timer(id)
CancelTimer(id) ==
    /\ ncalls < MaxCalls
    /\ ncalls' = ncalls + 1
    /\ Unpack(cancel_timer(Pack, id))
    /\ cancelled' = cancelled \cup {n \in DOMAIN started : started[n] = id /\ Ran(n) = 0}
    /\ UNCHANGED <<processor, runs, started, replaced, was_reset, stopped>>
    /\ TimerFrame

\* the client calls reset_timer(id)
ResetTimer(id) ==
    /\ ncalls < MaxCalls
    /\ ncalls' = ncalls + 1
    /\ LET r == reset_timer(Pack, id)
       IN /\ Unpack(r.E)
          /\ was_reset' = IF r.value THEN was_reset \cup {timers[id].g} ELSE was_reset
    /\ UNCHANGED <<processor, runs, started, cancelled, replaced, stopped>>
    /\ TimerFrame

\* the calls whose live timer has its identifier started again by the
\* request at position i of the queue
ReplacedBy(i) ==
    (LiveCalls(queue[i].id)
       \cup {queue[j].g : j \in {k \in 1..(i - 1) : queue[k].id = queue[i].id}})
    \ {queue[i].g}

\* _process_queue, when it has a request to take
Dispatch ==
    /\ processor
    /\ queue # <<>>
    /\ Unpack(process_queue(Pack))
    /\ replaced' = replaced \cup UNION {ReplacedBy(i) : i \in DOMAIN queue}
    /\ UNCHANGED <<processor, runs, started, cancelled, was_reset, stopped,
                   ncalls>>
    /\ TimerFrame

\* timer_task of a timer of the index: the sleep is over, the callback
\* runs and returns or raises
TaskElapse(id, raises) ==
    /\ timers[id] # NoTimer
    /\ id \notin stale
    /\ runs' = Append(runs, [n |-> timers[id].g, raised |-> raises])
    /\ Unpack(timer_task_end([Pack EXCEPT !.self = id], id, raises))
    /\ UNCHANGED <<processor, started, cancelled, replaced, was_reset, stopped,
                   ncalls>>
    /\ TimerFrame

\* the same for a live task that the index has lost
TaskOrphanElapse(t, raises) ==
    /\ t \in orphans
    /\ runs' = Append(runs, [n |-> t.g, raised |-> raises])
    /\ Unpack(timer_task_end([Pack EXCEPT !.orphans = @ \ {t}], t.id, raises))
    /\ UNCHANGED <<processor, started, cancelled, replaced, was_reset, stopped,
                   ncalls>>
    /\ TimerFrame

\* a cancelled timer task is scheduled: CancelledError, then finally
TaskCancelled(id) ==
    /\ id \in zombies
    /\ Unpack(timer_task_finally([Pack EXCEPT !.zombies = @ \ {id}], id))
    /\ UNCHANGED <<processor, runs, started, cancelled, replaced, was_reset,
                   stopped, ncalls>>
    /\ TimerFrame

TimerNext ==
    \/ Start
    \/ Stop
    \/ \E id \in ClientTimerIds : StartTimer(id)
    \/ \E id \in ClientTimerIds : CancelTimer(id)
    \/ \E id \in ClientTimerIds : ResetTimer(id)
    \/ Dispatch
    \/ \E id \in ClientTimerIds, raises \in BOOLEAN : TaskElapse(id, raises)
    \/ \E t \in orphans, raises \in BOOLEAN : TaskOrphanElapse(t, raises)
    \/ \E id \in ClientTimerIds : TaskCancelled(id)

TimerSpec == TimerInit /\ [][TimerNext]_vars

(***************************************************************************)
(* C23: if start_timer(id, d, f) has returned and cancel_timer(id) is      *)
(* called before f has run, f is never run for that start, whether the     *)
(* dispatcher had taken the request from the queue or not.                 *)
(***************************************************************************)
C23_CancelPreventsCallback ==
    \A n \in cancelled : Ran(n) = 0

(***************************************************************************)
(* C24: starting a timer under an identifier that has a live timer cancels *)
(* the old timer and replaces it: the callback of the old one never runs   *)
(* (unless reset_timer has queued it again), and no callback runs twice.   *)
(***************************************************************************)
C24_StartReplacesLiveTimer ==
    /\ \A n \in replaced \ was_reset : Ran(n) = 0
    /\ \A n \in DOMAIN started : Ran(n) <= 1

(***************************************************************************)
(* C25: reset_timer(id) on a timer of the index returns true, cancels the  *)
(* running countdown and queues a request with the duration and the        *)
(* callback of the original start; the callback does not run before the    *)
(* dispatcher has started the new countdown, and it runs once at most.  On *)
(* an identifier that the index does not hold, reset_timer returns false   *)
(* and changes nothing.                                                    *)
(***************************************************************************)
\* the request of the start_timer call n is in the queue
Queued(n) == \E i \in DOMAIN queue : queue[i].g = n

RaisingRun(id, n) ==
    \/ timers[id] # NoTimer /\ timers[id].g = n /\ TaskElapse(id, TRUE)
    \/ \E t \in orphans : t.id = id /\ t.g = n /\ TaskOrphanElapse(t, TRUE)

C26_RaiseStaysInTask ==
    [][\A id \in ClientTimerIds, n \in DOMAIN started :
          RaisingRun(id, n) =>
            /\ processor' = processor
            /\ queue' = queue
            /\ timers'[id] = NoTimer
            /\ \A x \in ClientTimerIds : LiveCalls(x) \ {n} \subseteq LiveCalls(x)']_vars

\* after a callback raised, a timer started before it and a timer started
\* after it have fired
C26_OthersFiredAfterRaise ==
    \E i \in DOMAIN runs :
        /\ runs[i].raised
        /\ \E j \in DOMAIN runs : j > i /\ runs[j].n < runs[i].n
        /\ \E j \in DOMAIN runs : j > i /\ runs[j].n > runs[i].n

(***************************************************************************)
(* C27: after stop() has returned no timer callback runs, and no request   *)
(* of the queue becomes a timer.                                           *)
(***************************************************************************)
C27_NothingRunsAfterStop ==
    [][stopped => /\ runs' = runs
                  /\ \A id \in ClientTimerIds :
                        timers'[id] # NoTimer => timers'[id] = timers[id]]_vars

(***************************************************************************)
(* The rule handler.  A supervisor task is a record: the name of its rule, *)
(* its kind, the statement it is at (pc), for a trigger rule the condition *)
(* object that its trigger provider returned (c) and the registration of   *)
(* it that the task waits on (g), for a scheduled rule the calls of the    *)
(* time provider (calls) and the position in the retry loop (i), for each  *)
(* run of the action whether it raised (outcomes), and whether cancel()    *)
(* was called on the task and the CancelledError is still to be thrown     *)
(* into it (cancel).  While the action waits in wait_for or check, g is    *)
(* the registration of the condition it passed.  The engine is the one     *)
(* above; the triggers and the condition of the actions are plain leaves.  *)
(***************************************************************************)
MaxInstalls == 2
MaxArms == 2
MaxHooks == 3
MaxRuns == 2
MaxProviderCalls == 3

\* the condition object that the trigger provider returns to the install
\* call that creates the task tid
TriggerCond(tid) == IF tid = 1 THEN "B" ELSE "N"

HPack == [active_rules |-> active_rules, tasks |-> tasks, installing |-> installing]

HUnpack(H) ==
    /\ active_rules' = H.active_rules
    /\ tasks' = H.tasks
    /\ installing' = H.installing

\* aio.create_task of a supervisor, and its entry in _active_rules
create_task(H, name, kind) ==
    LET tid == Len(H.tasks) + 1
        task == [name |-> name, kind |-> kind,
                 pc |-> IF kind = "trigger" THEN "start" ELSE "provider",
                 c |-> IF kind = "trigger" THEN TriggerCond(tid) ELSE "none",
                 g |-> 0, calls |-> 0, i |-> 0, outcomes |-> <<>>,
                 cancel |-> FALSE]
    IN [H EXCEPT !.tasks = Append(@, task), !.active_rules[name] = tid]

\* install_rule without the test of the name
install_rule_unchecked(H, name, valid) ==
    IF ~valid THEN [H |-> H, error |-> "RuntimeError"]
    ELSE [H |-> [H EXCEPT !.installing[name] = @ + 1], error |-> "none"]

\* install_rule up to the await of the trigger provider; valid tells that
\* the trigger code defines an acceptable get_trigger_condition
install_rule(H, name, valid) ==
    IF H.active_rules[name] # 0 THEN [H |-> H, error |-> "ValueError"]
    ELSE IF ~valid THEN [H |-> H, error |-> "RuntimeError"]
    ELSE [H |-> [H EXCEPT !.installing[name] = @ + 1], error |-> "none"]

\* install_rule from the return of the trigger provider; valid tells that
\* it returned a condition and that the action code is acceptable
install_rule_resume(H, name, valid) ==
    LET H1 == [H EXCEPT !.installing[name] = @ - 1]
    IN IF ~valid THEN [H |-> H1, error |-> "RuntimeError"]
       ELSE [H |-> create_task(H1, name, "trigger"), error |-> "none"]

\* install_scheduled_rule: it does not suspend
install_scheduled_rule(H, name, valid) ==
    IF H.active_rules[name] # 0 THEN [H |-> H, error |-> "ValueError"]
    ELSE IF ~valid THEN [H |-> H, error |-> "RuntimeError"]
    ELSE [H |-> create_task(H, name, "scheduled"), error |-> "none"]

\* _run_rule_on_condition after the action, with the exception re-raised
trigger_action_end_reraised(raises) == IF raises THEN "failed" ELSE "start"

\* _run_rule_on_condition after the action: an exception is logged and the
\* loop goes on
trigger_action_end(raises) == "start"

\* _run_scheduled_rule after the action, with the exception swallowed
scheduled_action_end_swallowed(raises) == "provider"

\* _run_scheduled_rule after the action: an exception is logged and
\* re-raised
scheduled_action_end(raises) == IF raises THEN "failed" ELSE "provider"

\* _run_scheduled_rule with a retry loop that goes on while i < 3
timer_provider_returned_thrice(T, when) ==
    LET i == IF T.pc = "retry" THEN T.i + 1 ELSE 0
        pc == CASE when = "future" -> "sleeping"
                [] when = "none" /\ T.pc = "provider" -> "done"
                [] when = "none" /\ T.pc = "retry" -> "failed"
                [] when = "past" /\ i < 3 -> "retry"
                [] OTHER -> "done"
    IN [T EXCEPT !.pc = pc, !.i = i, !.calls = @ + 1]

\* _run_scheduled_rule from the return of the time provider, called at the
\* head of the loop (pc provider) or in the retry loop (pc retry, where i
\* counts the retries made): None ends the loop at its head and makes the
\* comparison raise in the retry loop, an instant to come leads to the
\* sleep, a past one to a retry while i < 2 and to the return after that
timer_provider_returned(T, when) ==
    LET i == IF T.pc = "retry" THEN T.i + 1 ELSE 0
        pc == CASE when = "future" -> "sleeping"
                [] when = "none" /\ T.pc = "provider" -> "done"
                [] when = "none" /\ T.pc = "retry" -> "failed"
                [] when = "past" /\ i < 2 -> "retry"
                [] OTHER -> "done"
    IN [T EXCEPT !.pc = pc, !.i = i, !.calls = @ + 1]

\* the condition object that the actions pass to wait_for and to check
ActionCond == "R"

\* RuleUtilities calls the coroutine function remove_condition without
\* await: the coroutine object is dropped and its body never runs
remove_condition_not_awaited(E, c) == E

\* the CancelledError thrown into the supervisor T where it is suspended:
\* _run_rule_on_condition catches it, removes its trigger and raises it
\* again; _run_scheduled_rule, wait_for and check have no handler
rule_cancelled(E, T) ==
    IF T.kind = "trigger" THEN remove_condition(E, T.c) ELSE E

\* uninstall_rule up to the return of `await task`, which suspends unless
\* the task is done and raises the exception with which the task ended
uninstall_rule(H, name) ==
    LET t == H.active_rules[name]
    IN IF t = 0 THEN [H |-> H, error |-> "ValueError"]
       ELSE IF H.tasks[t].pc = "failed" THEN [H |-> H, error |-> "Exception"]
       ELSE IF H.tasks[t].pc \in {"done", "cancelled"}
       THEN [H |-> [H EXCEPT !.active_rules[name] = 0], error |-> "none"]
       ELSE [H |-> [H EXCEPT !.tasks[t].cancel = TRUE], error |-> "none"]

\* uninstall_rule from the end of the cancelled task t: the CancelledError
\* is suppressed and the entry deleted
uninstall_rule_resume(H, name, t) ==
    [H EXCEPT !.active_rules[name] = 0, !.tasks[t].cancel = FALSE]

\* get_active_rules
get_active_rules(H) == {name \in Names : H.active_rules[name] # 0}

RuleInit ==
    /\ QuietEngine({TriggerCond(tid) : tid \in 1..MaxInstalls}, MaxArms)
    /\ QuietTimers(TRUE)
    /\ RuleHandlerInit

EngineIdle ==
    /\ Unpack(Pack)
    /\ UNCHANGED <<adding, hub, nevents, gen>>

TimersIdle ==
    UNCHANGED <<operator, parentClass, registered, processor, runs, started,
                cancelled, replaced, was_reset, stopped, ncalls>>

\* install_rule is called
InstallRule(name, valid) ==
    /\ ninstalls < MaxInstalls
    /\ LET r == install_rule(HPack, name, valid)
       IN /\ HUnpack(r.H)
          /\ ninstalls' = IF r.error = "ValueError" THEN ninstalls ELSE ninstalls + 1
    /\ EngineIdle
    /\ TimersIdle

\* the trigger provider of an install_rule call returns
InstallRuleResume(name, valid) ==
    /\ installing[name] > 0
    /\ HUnpack(install_rule_resume(HPack, name, valid).H)
    /\ UNCHANGED ninstalls
    /\ EngineIdle
    /\ TimersIdle

\* install_scheduled_rule is called
InstallScheduledRule(name, valid) ==
    /\ ninstalls < MaxInstalls
    /\ LET r == install_scheduled_rule(HPack, name, valid)
       IN /\ HUnpack(r.H)
          /\ ninstalls' = IF r.error = "ValueError" THEN ninstalls ELSE ninstalls + 1
    /\ EngineIdle
    /\ TimersIdle

\* _run_rule_on_condition, head of the loop: add_condition(trigger, event)
\* with a new event, up to its first suspension
Arm(t) ==
    /\ tasks[t].pc = "start"
    /\ ~tasks[t].cancel
    /\ LockFree
    /\ gen[tasks[t].c] < MaxArms
    /\ LET c == tasks[t].c
           r == _add_condition(Pack, <<>>, c, gen[c] + 1)
       IN /\ Unpack(r.E)
          /\ adding' = r.stack
          /\ gen' = [gen EXCEPT ![c] = @ + 1]
          /\ tasks' = [tasks EXCEPT ![t].pc = "armed", ![t].g = gen[c] + 1]
    /\ UNCHANGED <<hub, nevents, active_rules, installing, ninstalls>>
    /\ TimersIdle

\* the webhook task: the attribute of device d becomes v and
\* on_device_event runs
Webhook(d, v) ==
    /\ nevents < MaxHooks
    /\ d \in DevicesOf(registered)
    /\ nevents' = nevents + 1
    /\ hub' = [hub EXCEPT ![d] = v]
    /\ \E E \in on_device_event(Pack, d, v) : Unpack(E)
    /\ adding' = IF ~LockFree /\ d \in Range(device_ids(Top(adding).c))
                 THEN [adding EXCEPT ![Len(adding)].seen = @ \cup {v}]
                 ELSE adding
    /\ UNCHANGED <<gen, active_rules, tasks, installing, ninstalls>>
    /\ TimersIdle

\* event.wait() returns; the task removes the trigger from the engine and
\* calls the action
Wake(t) ==
    /\ tasks[t].pc = "armed"
    /\ ~tasks[t].cancel
    /\ LockFree
    /\ fire[tasks[t].c][tasks[t].g] > 0
    /\ Len(tasks[t].outcomes) < MaxRuns
    /\ Unpack(remove_condition(Pack, tasks[t].c))
    /\ tasks' = [tasks EXCEPT ![t].pc = "action"]
    /\ UNCHANGED <<adding, hub, nevents, gen, active_rules, installing, ninstalls>>
    /\ TimersIdle

\* _run_scheduled_rule: the time provider returns None, a time that is
\* past, or a time to come
ProviderReturns(t, when) ==
    /\ tasks[t].pc \in {"provider", "retry"}
    /\ ~tasks[t].cancel
    /\ tasks[t].calls < MaxProviderCalls
    /\ tasks' = [tasks EXCEPT ![t] = timer_provider_returned(tasks[t], when)]
    /\ UNCHANGED <<active_rules, installing, ninstalls>>
    /\ EngineIdle
    /\ TimersIdle

\* aio.sleep returns and the action is called
SleepOver(t) ==
    /\ tasks[t].pc = "sleeping"
    /\ ~tasks[t].cancel
    /\ Len(tasks[t].outcomes) < MaxRuns
    /\ tasks' = [tasks EXCEPT ![t].pc = "action"]
    /\ UNCHANGED <<active_rules, installing, ninstalls>>
    /\ EngineIdle
    /\ TimersIdle

\* the action returns or raises
ActionReturns(t, raises) ==
    /\ tasks[t].pc = "action"
    /\ ~tasks[t].cancel
    /\ tasks' = [tasks EXCEPT
                    ![t].outcomes = Append(@, raises),
                    ![t].pc = IF tasks[t].kind = "trigger"
                              THEN trigger_action_end(raises)
                              ELSE scheduled_action_end(raises)]
    /\ UNCHANGED <<active_rules, installing, ninstalls>>
    /\ EngineIdle
    /\ TimersIdle

\* the supervisor task t has ended
Ended(t) == tasks[t].pc \in {"done", "failed", "cancelled"}

RuleNext ==
    \/ \E name \in Names, valid \in BOOLEAN : InstallRule(name, valid)
    \/ \E name \in Names, valid \in BOOLEAN : InstallRuleResume(name, valid)
    \/ \E name \in Names, valid \in BOOLEAN : InstallScheduledRule(name, valid)
    \/ \E t \in DOMAIN tasks : Arm(t)
    \/ AddResume
    \/ \E d \in Devices, v \in Values : Webhook(d, v)
    \/ \E t \in DOMAIN tasks : Wake(t)
    \/ \E t \in DOMAIN tasks, when \in {"none", "past", "future"} : ProviderReturns(t, when)
    \/ \E t \in DOMAIN tasks : SleepOver(t)
    \/ \E t \in DOMAIN tasks, raises \in BOOLEAN : ActionReturns(t, raises)

RuleSpec == RuleInit /\ [][RuleNext]_vars

(***************************************************************************)
(* C28: installing a rule, trigger or scheduled, under a name that the     *)
(* active index holds fails with an error, creates no supervisor task and  *)
(* leaves the index and the tasks as they are.  In every reachable state   *)
(* and for every name of the index, both install methods raise the         *)
(* ValueError of the name test and return the handler unchanged.           *)
(***************************************************************************)
C28_TakenNameRejected ==
    \A name \in Names :
        active_rules[name] # 0 =>
            \A valid \in BOOLEAN :
                /\ install_rule(HPack, name, valid) = [H |-> HPack, error |-> "ValueError"]
                /\ install_scheduled_rule(HPack, name, valid)
                       = [H |-> HPack, error |-> "ValueError"]

\* the index holds a trigger rule whose supervisor waits for its trigger
\* and a scheduled rule whose supervisor sleeps
C28_NamesTaken ==
    \E a, b \in Names :
        /\ active_rules[a] # 0
        /\ tasks[active_rules[a]].kind = "trigger"
        /\ tasks[active_rules[a]].pc = "armed"
        /\ active_rules[b] # 0
        /\ tasks[active_rules[b]].kind = "scheduled"
        /\ tasks[active_rules[b]].pc = "sleeping"

(***************************************************************************)
(* C29: if the action of a trigger rule raises, the supervisor task does   *)
(* not end: it is back at the head of its loop, where it registers the     *)
(* trigger with the engine again, and it keeps its entry of the index.     *)
(***************************************************************************)
C29_TriggerRuleSurvivesRaise ==
    [][\A t \in DOMAIN tasks :
          (tasks[t].kind = "trigger" /\ ActionReturns(t, TRUE)) =>
              /\ tasks'[t].pc = "start"
              /\ active_rules' = active_rules]_vars

\* after an action that raised, the trigger was registered again, fired
\* again, and the action ran again
C29_RanAgainAfterRaise ==
    \E t \in DOMAIN tasks :
        /\ tasks[t].kind = "trigger"
        /\ Len(tasks[t].outcomes) = 2
        /\ tasks[t].outcomes[1]
        /\ tasks[t].g = 2

(***************************************************************************)
(* C30: if the action of a scheduled rule raises, the supervisor loop      *)
(* ends: from then on the time provider is not called and the action does  *)
(* not run.                                                                *)
(***************************************************************************)
\* the supervisor of a scheduled rule whose last action raised
ActionFailed(t) ==
    /\ tasks[t].kind = "scheduled"
    /\ tasks[t].outcomes # <<>>
    /\ tasks[t].outcomes[Len(tasks[t].outcomes)]

C30_ScheduledRuleEndsOnRaise ==
    /\ [][\A t \in DOMAIN tasks :
             (tasks[t].kind = "scheduled" /\ ActionReturns(t, TRUE)) =>
                 tasks'[t].pc = "failed"]_vars
    /\ [][\A t \in DOMAIN tasks :
             ActionFailed(t) => /\ tasks'[t].calls = tasks[t].calls
                                /\ tasks'[t].outcomes = tasks[t].outcomes]_vars

\* a scheduled rule ran its action twice and the second run raised
C30_FailedAfterARun ==
    \E t \in DOMAIN tasks :
        /\ ActionFailed(t)
        /\ tasks[t].outcomes = <<FALSE, TRUE>>
        /\ tasks[t].pc = "failed"

(***************************************************************************)
(* C31: when the time provider of a scheduled rule returns an instant that *)
(* is not in the future, the supervisor calls it again at most twice; if   *)
(* the second retry is in the past too the supervisor returns, and the     *)
(* action has not run since the first of these calls.                      *)
(***************************************************************************)
C31_PastInstantsEndTheRule ==
    /\ [](\A t \in DOMAIN tasks : tasks[t].i <= 2 /\ (tasks[t].pc = "retry" => tasks[t].i < 2))
    /\ [][\A t \in DOMAIN tasks :
             (tasks[t].pc = "retry" /\ ProviderReturns(t, "past")) =>
                 /\ tasks'[t].outcomes = tasks[t].outcomes
                 /\ tasks[t].i = 1 => tasks'[t].pc = "done"]_vars
    /\ [][\A t \in DOMAIN tasks :
             tasks[t].pc = "done" => tasks'[t] = tasks[t]]_vars

\* three calls of the provider returned past instants, and the supervisor
\* has returned without a run of the action
C31_GaveUpAfterTwoRetries ==
    \E t \in DOMAIN tasks :
        /\ tasks[t].kind = "scheduled"
        /\ tasks[t].pc = "done"
        /\ tasks[t].i = 2
        /\ tasks[t].calls = 3
        /\ tasks[t].outcomes = <<>>

(***************************************************************************)
(* C34: the callback of a duration timer raises the fire signal of its     *)
(* condition only if, when it has the engine lock, the condition is        *)
(* tracked with the stored state DURATION_PENDING; a callback that finds   *)
(* the condition removed or FALSE raises no signal.                        *)
(***************************************************************************)
C34_FiresOnlyWhilePending ==
    [][\A c \in Conds :
          (/\ duration(c)
           /\ Elapses(condition_duration(c))
           /\ ~(conditions[c] # NoCond /\ conditions[c].st = DURATION_PENDING))
          => fire'[c] = fire[c]]_vars

(***************************************************************************)
(* C35: the fire signal of an 'and' parent is raised only when the         *)
(* predicate of every child is true on the latest values that were         *)
(* dispatched for the devices: a child that became true and then false     *)
(* again does not count as true.                                           *)
(***************************************************************************)
\* the predicate of c on the values the hub holds
RECURSIVE PredicateOnHub(_)
PredicateOnHub(c) ==
    IF c \in Leaves
    THEN LET v == _cast_value(hub[device_ids(c)[1]])
         IN CASE _operator(c) = "=" -> v = _value(c)
              [] _operator(c) = "!=" -> v # _value(c)
              [] _operator(c) = ">" -> v = True_ /\ _value(c) = False_
    ELSE \A s \in Range(subconditions(c)) : PredicateOnHub(s)

C35_AndFiresOnCurrentValues ==
    [][\A p \in Parents :
          (operator = "and" /\ fire'[p] # fire[p]) => PredicateOnHub(p)']_vars

(***************************************************************************)
(* C36: a device event that is dispatched while the add_condition of a     *)
(* condition on that device is suspended in get_bulk_attributes is not     *)
(* lost: when the registration of the condition completes, its stored      *)
(* state is that of its predicate on the latest value of the device.       *)
(***************************************************************************)
C36_EventDuringAddNotLost ==
    [][\A c \in Leaves :
          (AddResume /\ conditions[c] = NoCond /\ conditions'[c] # NoCond)
          => ((conditions'[c].st # FALSE_) <=> PredicateOnHub(c)')]_vars

(***************************************************************************)
(* C37: when add_condition fails, the engine lock is released and neither  *)
(* conditions nor condition_deps nor device_to_conditions holds an entry   *)
(* for the condition that failed or for the subconditions that were        *)
(* registered for it.                                                      *)
(***************************************************************************)
C37_FailedAddLeavesNothing ==
    [][\A c \in Conds :
          (AddReturns(c) /\ conditions'[c] = NoCond)
          => /\ \A s \in Conds : c \notin condition_deps'[s]
             /\ \A x \in {c} \cup Descendants(c) :
                   conditions'[x] = NoCond =>
                       \A d \in DOMAIN device_to_conditions' :
                           x \notin device_to_conditions'[d]]_vars

(***************************************************************************)
(* C38: whenever a timer task is pending for an identifier (it sleeps and  *)
(* is not cancelled), the index of the timer service maps the identifier   *)
(* to that task, also after start_timer replaced the timer or reset_timer  *)
(* restarted it; so a later cancel_timer finds the task.                   *)
(***************************************************************************)
C38_IndexHoldsPendingTasks ==
    \A t \in orphans :
        /\ timers[t.id] # NoTimer
        /\ timers[t.id].g = t.g
        /\ t.id \notin stale

(***************************************************************************)
(* C39: under concurrent install calls for one name at most one            *)
(* supervisor task is created for the name: every supervisor task that     *)
(* has not ended is the task that the active index holds for its name.     *)
(***************************************************************************)
C39_OneSupervisorPerName ==
    \A t \in DOMAIN tasks : ~Ended(t) => active_rules[tasks[t].name] = t

(***************************************************************************)
(* The life of one rule: it is installed, its action may call wait_for and *)
(* check of RuleUtilities with a condition of its own, and it is           *)
(* uninstalled and installed again.  The handler, the engine and the       *)
(* supervisors are those of RuleSpec.                                      *)
(***************************************************************************)
LifeNames == {"r1"}

LifeInit ==
    /\ QuietEngine({TriggerCond(tid) : tid \in 1..MaxInstalls} \cup {ActionCond},
                   MaxArms)
    /\ QuietTimers(TRUE)
    /\ RuleHandlerInit

\* the task t is suspended in the get_bulk_attributes of the add_condition
\* that it called
Owns(t) ==
    /\ adding # <<>>
    /\ tasks[t].pc \in {"armed", "waiting", "checking"}
    /\ adding[1].g = tasks[t].g
    /\ adding[1].c = IF tasks[t].pc = "armed" THEN tasks[t].c ELSE ActionCond

\* the action calls wait_for(condition) (what = waiting) or
\* check(condition) (what = checking): add_condition up to its first
\* suspension
ActionAdds(t, what) ==
    /\ tasks[t].pc = "action"
    /\ ~tasks[t].cancel
    /\ LockFree
    /\ conditions[ActionCond] = NoCond
    /\ gen[ActionCond] < MaxArms
    /\ LET g == gen[ActionCond] + 1
           r == _add_condition(Pack, <<>>, ActionCond, g)
       IN /\ Unpack(r.E)
          /\ adding' = r.stack
          /\ gen' = [gen EXCEPT ![ActionCond] = g]
          /\ tasks' = [tasks EXCEPT ![t].pc = what, ![t].g = g]
    /\ UNCHANGED <<hub, nevents, active_rules, installing, ninstalls>>
    /\ TimersIdle

\* _wait_for_condition: event.wait() returns, remove_condition is called,
\* and wait_for returns to the action
WaitOver(t) ==
    /\ tasks[t].pc = "waiting"
    /\ ~tasks[t].cancel
    /\ LockFree
    /\ fire[ActionCond][tasks[t].g] > 0
    /\ Unpack(remove_condition_not_awaited(Pack, ActionCond))
    /\ tasks' = [tasks EXCEPT ![t].pc = "action"]
    /\ UNCHANGED <<adding, hub, nevents, gen, active_rules, installing, ninstalls>>
    /\ TimersIdle

\* check: add_condition returns, the state is read, remove_condition is
\* called, and check returns to the action
CheckReturns(t) ==
    /\ tasks[t].pc = "checking"
    /\ ~tasks[t].cancel
    /\ Owns(t)
    /\ \E v \in Top(adding).seen :
          LET r == _add_condition_initialize(Pack, adding, v)
          IN /\ Unpack(remove_condition_not_awaited(r.E, ActionCond))
             /\ adding' = r.stack
    /\ tasks' = [tasks EXCEPT ![t].pc = "action"]
    /\ UNCHANGED <<hub, nevents, gen, active_rules, installing, ninstalls>>
    /\ TimersIdle

\* get_bulk_attributes returns to the add_condition of a supervisor or of
\* wait_for
FetchReturns ==
    /\ \A t \in DOMAIN tasks : Owns(t) => ~tasks[t].cancel /\ tasks[t].pc # "checking"
    /\ AddResume

\* uninstall_rule is called for a name of the index
UninstallRule(name) ==
    /\ active_rules[name] # 0
    /\ ~tasks[active_rules[name]].cancel
    /\ HUnpack(uninstall_rule(HPack, name).H)
    /\ UNCHANGED ninstalls
    /\ EngineIdle
    /\ TimersIdle

\* the cancelled supervisor task t is scheduled: CancelledError is thrown
\* where it is suspended.  An add_condition that it was in releases the
\* lock; the remove_condition of the handler waits for the lock
Cancelled(t) ==
    /\ tasks[t].cancel
    /\ ~Ended(t)
    /\ (tasks[t].kind = "trigger" /\ ~Owns(t)) => LockFree
    /\ Unpack(rule_cancelled([Pack EXCEPT !.lock = (~Owns(t) /\ @)], tasks[t]))
    /\ adding' = IF Owns(t) THEN <<>> ELSE adding
    /\ tasks' = [tasks EXCEPT ![t].pc = "cancelled"]
    /\ UNCHANGED <<hub, nevents, gen, active_rules, installing, ninstalls>>
    /\ TimersIdle

\* `await task` returns in the uninstall_rule that cancelled t
UninstallRuleResume(name, t) ==
    /\ tasks[t].name = name
    /\ tasks[t].cancel
    /\ tasks[t].pc = "cancelled"
    /\ HUnpack(uninstall_rule_resume(HPack, name, t))
    /\ UNCHANGED ninstalls
    /\ EngineIdle
    /\ TimersIdle

LifeNext ==
    \/ \E name \in LifeNames, valid \in BOOLEAN : InstallRule(name, valid)
    \/ \E name \in LifeNames, valid \in BOOLEAN : InstallRuleResume(name, valid)
    \/ \E name \in LifeNames, valid \in BOOLEAN : InstallScheduledRule(name, valid)
    \/ \E t \in DOMAIN tasks : Arm(t)
    \/ FetchReturns
    \/ \E d \in Devices, v \in Values : Webhook(d, v)
    \/ \E t \in DOMAIN tasks : Wake(t)
    \/ \E t \in DOMAIN tasks, when \in {"none", "past", "future"} : ProviderReturns(t, when)
    \/ \E t \in DOMAIN tasks : SleepOver(t)
    \/ \E t \in DOMAIN tasks, raises \in BOOLEAN : ActionReturns(t, raises)
    \/ \E t \in DOMAIN tasks, what \in {"waiting", "checking"} : ActionAdds(t, what)
    \/ \E t \in DOMAIN tasks : WaitOver(t)
    \/ \E t \in DOMAIN tasks : CheckReturns(t)
    \/ \E name \in LifeNames : UninstallRule(name)
    \/ \E t \in DOMAIN tasks : Cancelled(t)
    \/ \E name \in LifeNames, t \in DOMAIN tasks : UninstallRuleResume(name, t)

LifeSpec == LifeInit /\ [][LifeNext]_vars

(***************************************************************************)
(* C32: installing a rule and uninstalling it restores the engine.  For a  *)
(* rule installed on the engine as constructed, with no other rule ever    *)
(* installed: when uninstall_rule returns, wherever the supervisor was,    *)
(* the name is not among the active rules and the engine tracks nothing    *)
(* and has no timer, as before the install.                                *)
(***************************************************************************)
\* uninstall_rule(name) returns without an error in this step
UninstallReturns(name) ==
    \/ UninstallRule(name) /\ uninstall_rule(HPack, name).error = "none"
                           /\ Ended(active_rules[name])
    \/ \E t \in DOMAIN tasks : UninstallRuleResume(name, t)

\* the indices and the timers of an engine that tracks nothing
EngineAsConstructed ==
    /\ conditions = [c \in Conds |-> NoCond]
    /\ condition_deps = [c \in Conds |-> {}]
    /\ DOMAIN device_to_conditions = {}
    /\ timers = [id \in TimerIds |-> NoTimer]
    /\ queue = <<>>
    /\ orphans = {}

C32_UninstallRestoresEngine ==
    [][\A name \in LifeNames :
          (UninstallReturns(name) /\ ninstalls = 1 /\ Len(tasks) = 1)
          => /\ name \notin get_active_rules(HPack)'
             /\ EngineAsConstructed']_vars

(***************************************************************************)
(* C33: check(condition) leaves the engine as it found it: when it has     *)
(* returned, the condition is not tracked, no device entry names it, and   *)
(* none of its timers is live or requested.                                *)
(***************************************************************************)
C33_CheckLeavesEngineAsFound ==
    [][\A t \in DOMAIN tasks :
          CheckReturns(t) =>
              /\ conditions'[ActionCond] = NoCond
              /\ \A d \in DOMAIN device_to_conditions' :
                    ActionCond \notin device_to_conditions'[d]
              /\ timers'[condition_timeout(ActionCond)] = NoTimer
              /\ timers'[condition_duration(ActionCond)] = NoTimer
              /\ \A i \in DOMAIN queue' : queue'[i].id.c # ActionCond]_vars

(***************************************************************************)
(* C40: uninstall_rule removes a name of the active index also when the    *)
(* supervisor task has ended on its own, so that the name can be           *)
(* installed again.  In every reachable state and for every name whose     *)
(* task has ended, uninstall_rule returns without an error, the name is    *)
(* no longer active, and an install under the name is accepted.            *)
(***************************************************************************)
C40_UninstallRemovesEndedRule ==
    \A name \in LifeNames :
        (active_rules[name] # 0 /\ Ended(active_rules[name])) =>
            LET r == uninstall_rule(HPack, name)
            IN /\ r.error = "none"
               /\ name \notin get_active_rules(r.H)
               /\ install_scheduled_rule(r.H, name, TRUE).error = "none"

====
